---- MODULE Spec2Model ----
(***************************************************************************)
(* Model of scripts/generate_bench_assets.py: a linear script that         *)
(* augments a population table with two derived ratios and exports the    *)
(* fire and population tables as CSV, Markdown, JSON and charts.           *)
(*                                                                         *)
(* Python floats are modelled as exact rationals [num, den] in lowest     *)
(* terms; a dict is a function on its key set, so an absent key is a key  *)
(* outside DOMAIN and reading it raises KeyError; None is its own value.   *)
(* A formatted number f"{v:.Nf}" is the record of the rounded scaled      *)
(* integer, the number of decimals and the suffix that follows it.         *)
(* File names are relative to ARTIFACT_DIR.                                *)
(***************************************************************************)
EXTENDS Integers, Sequences, FiniteSets, TLC

\* Longest generated population table (besides the script's own 7-row one).
MaxRows == 2

-----------------------------------------------------------------------------
(* Values *)

RECURSIVE GCD(_, _)
GCD(a, b) == IF b = 0 THEN a ELSE GCD(b, a % b)

None == [kind |-> "None"]

Str(s) == [kind |-> "str", s |-> s]

\* The float n/d (n >= 0, d > 0), in lowest terms.
Float(n, d) ==
    LET g == GCD(n, d)
    IN  [kind |-> "float", num |-> n \div g, den |-> d \div g]

\* A float literal written with three decimals, e.g. 1.992 is Milli(1992).
Milli(n) == Float(n, 1000)

\* Python truthiness of a float or None: 0.0 and None are falsy.
Truthy(v) == v.kind = "float" /\ v.num # 0

\* a / b for floats, b nonzero.
Div(a, b) == Float(a.num * b.den, a.den * b.num)

\* a * b for floats.
Mul(a, b) == Float(a.num * b.num, a.den * b.den)

Pow10(d) == CASE d = 0 -> 1 [] d = 1 -> 10 [] d = 2 -> 100 [] d = 3 -> 1000 [] d = 4 -> 10000

\* n/d rounded to the nearest integer, ties to even.
RoundHalfEven(n, d) ==
    LET q == n \div d
        r == n % d
    IN  IF 2 * r < d THEN q
        ELSE IF 2 * r > d THEN q + 1
        ELSE IF q % 2 = 0 THEN q ELSE q + 1

\* f"{v:.<digits>f}<suffix>" for a float v.
FormatFixed(v, digits, suffix) ==
    [kind |-> "fixed", scaled |-> RoundHalfEven(v.num * Pow10(digits), v.den),
     decimals |-> digits, suffix |-> suffix]

\* f"{v:...f}" raises TypeError when v is None.
CanFormat(v) == v.kind = "float"

\* r[k] = v on a dict.
Put(r, k, v) == (k :> v) @@ r

Has(r, k) == k \in DOMAIN r

-----------------------------------------------------------------------------
(* The two tables *)

FireResult(model, threads, time_s, speedup, efficiency, files_per_sec) ==
    [model |-> model, threads |-> threads, time_s |-> time_s, speedup |-> speedup,
     efficiency |-> efficiency, files_per_sec |-> files_per_sec]

\* FIRE_DATA with the last Column record entered at 16 threads.
FireDataLiteral_ColumnThreads16 ==
    << FireResult("Row", 1, Milli(2079), Float(100, 100), Float(100, 100), Float(2482, 10)),
       FireResult("Row", 2, Milli(1328), Float(157, 100), Float(157, 200), Float(3884, 10)),
       FireResult("Row", 3, Milli(1006), Float(207, 100), Float(207, 300), Float(5132, 10)),
       FireResult("Row", 4, Milli(828), Float(251, 100), Float(251, 400), Float(6229, 10)),
       FireResult("Row", 8, Milli(806), Float(258, 100), Float(258, 800), Float(6405, 10)),
       FireResult("Column", 1, Milli(2094), Float(100, 100), Float(100, 100), Float(2464, 10)),
       FireResult("Column", 2, Milli(1340), Float(156, 100), Float(156, 200), Float(3850, 10)),
       FireResult("Column", 3, Milli(1037), Float(202, 100), Float(202, 300), Float(4974, 10)),
       FireResult("Column", 4, Milli(874), Float(240, 100), Float(240, 400), Float(5906, 10)),
       FireResult("Column", 16, Milli(850), Float(246, 100), Float(246, 1600), Float(6068, 10)) >>

FireDataLiteral ==
    << FireResult("Row", 1, Milli(2079), Float(100, 100), Float(100, 100), Float(2482, 10)),
       FireResult("Row", 2, Milli(1328), Float(157, 100), Float(157, 200), Float(3884, 10)),
       FireResult("Row", 3, Milli(1006), Float(207, 100), Float(207, 300), Float(5132, 10)),
       FireResult("Row", 4, Milli(828), Float(251, 100), Float(251, 400), Float(6229, 10)),
       FireResult("Row", 8, Milli(806), Float(258, 100), Float(258, 800), Float(6405, 10)),
       FireResult("Column", 1, Milli(2094), Float(100, 100), Float(100, 100), Float(2464, 10)),
       FireResult("Column", 2, Milli(1340), Float(156, 100), Float(156, 200), Float(3850, 10)),
       FireResult("Column", 3, Milli(1037), Float(202, 100), Float(202, 300), Float(4974, 10)),
       FireResult("Column", 4, Milli(874), Float(240, 100), Float(240, 400), Float(5906, 10)),
       FireResult("Column", 8, Milli(850), Float(246, 100), Float(246, 800), Float(6068, 10)) >>

\* A population row; a parallel field given as -1 is left out of the dict.
PopulationRow(operation, row_serial, row_parallel, column_serial, column_parallel) ==
    LET base == ("operation" :> Str(operation)) @@ ("row_serial_us" :> Milli(row_serial))
                @@ ("column_serial_us" :> Milli(column_serial))
        withRowPar == IF row_parallel < 0 THEN base
                      ELSE Put(base, "row_parallel_us", Milli(row_parallel))
    IN  IF column_parallel < 0 THEN withRowPar
        ELSE Put(withRowPar, "column_parallel_us", Milli(column_parallel))

PopulationRowsLiteral ==
    << PopulationRow("Sum", 1992, 163750, 534, 36592),
       PopulationRow("Average", 925, 32592, 400, 37267),
       PopulationRow("Max", 900, 23267, 408, 16825),
       PopulationRow("Min", 917, 15167, 442, 16333),
       PopulationRow("Top-10", 11175, 29684, 9825, 31675),
       PopulationRow("Point Query", 28775, 46159, 133, 200),
       PopulationRow("Range (11y)", 37558, 22092, 592, 308) >>

(* Generated population tables: the claims speak of any rows, so besides  *)
(* the script's literal the table ranges over short tables whose timings  *)
(* are zero or not and whose parallel fields are present or not.  The     *)
(* operation label of the i-th generated row is fixed by its position.     *)
OperationAt(i) ==
    CASE i = 1 -> "Point Query" [] i = 2 -> "Range (11y)" [] i = 3 -> "Sum" [] OTHER -> "Average"

\* Sample timings in thousandths of a microsecond; -1 leaves the field out.
RowSerialSamples == <<0, 2000>>
ColumnSerialSamples == <<0, 3000>>
RowParallelSamples == <<0, 1000, -1>>
ColumnParallelSamples == <<8000, 0, -1>>

\* A row's timings, each given by its position among the field's samples.
Timings ==
    (DOMAIN RowSerialSamples) \X (DOMAIN RowParallelSamples)
        \X (DOMAIN ColumnSerialSamples) \X (DOMAIN ColumnParallelSamples)

\* The generated table with the timings t[i] in its i-th row.
GeneratedTable(t) ==
    [i \in 1..Len(t) |->
        PopulationRow(OperationAt(i), RowSerialSamples[t[i][1]], RowParallelSamples[t[i][2]],
                      ColumnSerialSamples[t[i][3]], ColumnParallelSamples[t[i][4]])]

-----------------------------------------------------------------------------
(* Derived metrics *)

\* The loop body that also rescales row_serial_us in place to the ratio.
DeriveRow_OverwritesRaw(r) ==
    LET ratio == IF Truthy(r["column_serial_us"])
                 THEN Div(r["row_serial_us"], r["column_serial_us"]) ELSE None
        r1 == Put(Put(r, "column_advantage_serial", ratio), "row_serial_us",
                  IF ratio = None THEN r["row_serial_us"] ELSE ratio)
    IN  IF ~Has(r1, "column_parallel_us") THEN [row |-> r1, error |-> "KeyError"]
        ELSE IF Truthy(r1["column_parallel_us"])
        THEN IF ~Has(r1, "row_parallel_us") THEN [row |-> r1, error |-> "KeyError"]
             ELSE [row |-> Put(r1, "column_advantage_parallel",
                               IF Truthy(r1["row_parallel_us"])
                               THEN Div(r1["row_parallel_us"], r1["column_parallel_us"])
                               ELSE None),
                   error |-> "none"]
        ELSE [row |-> Put(r1, "column_advantage_parallel", None), error |-> "none"]

\* One iteration of the loop: the row as the iteration leaves it, and the
\* exception it raised, if any.
DeriveRow(r) ==
    LET r1 == Put(r, "column_advantage_serial",
                  IF Truthy(r["column_serial_us"])
                  THEN Div(r["row_serial_us"], r["column_serial_us"]) ELSE None)
    IN  IF ~Has(r1, "column_parallel_us") THEN [row |-> r1, error |-> "KeyError"]
        ELSE IF Truthy(r1["column_parallel_us"])
        THEN IF ~Has(r1, "row_parallel_us") THEN [row |-> r1, error |-> "KeyError"]
             ELSE [row |-> Put(r1, "column_advantage_parallel",
                               IF Truthy(r1["row_parallel_us"])
                               THEN Div(r1["row_parallel_us"], r1["column_parallel_us"])
                               ELSE None),
                   error |-> "none"]
        ELSE [row |-> Put(r1, "column_advantage_parallel", None), error |-> "none"]

\* Index of the first iteration that raises, or 0.
FirstError(results) ==
    IF \E i \in DOMAIN results : results[i].error # "none"
    THEN CHOOSE i \in DOMAIN results :
             /\ results[i].error # "none"
             /\ \A j \in DOMAIN results : results[j].error # "none" => i <= j
    ELSE 0

\* The in-place loop over rows: it stops at the first iteration that raises,
\* leaving the earlier rows updated and the later ones untouched.
AddDerivedPopulationMetrics(rows) ==
    LET results == [i \in 1..Len(rows) |-> DeriveRow(rows[i])]
        k == FirstError(results)
    IN  [rows |-> [i \in 1..Len(rows) |->
                      IF k = 0 \/ i <= k THEN results[i].row ELSE rows[i]],
         error |-> IF k = 0 THEN "none" ELSE results[k].error]

-----------------------------------------------------------------------------
(* Files *)

TextFiles == {"fire_results.csv", "population_results.csv", "fire_results.md",
              "population_results.md", "benchmarks.json"}

ChartFiles == {"fire_speedup.png", "fire_speedup.svg", "fire_efficiency.png",
               "fire_efficiency.svg", "population_point_range.png",
               "population_point_range.svg"}

FileNames == TextFiles \cup ChartFiles

NoFile == [exists |-> FALSE, lines |-> <<>>]

\* open(path, "a"): the old content is kept.
OpenForWrite_Append(old) == [exists |-> TRUE, lines |-> old.lines]

\* open(path, "w"): the file is created or truncated.
OpenForWrite(old) == [exists |-> TRUE, lines |-> <<>>]

\* The rows a loop writes before the first one whose formatting raises.
WrittenRows(results) ==
    LET k == FirstError(results)
        n == IF k = 0 THEN Len(results) ELSE k - 1
    IN  [i \in 1..n |-> results[i].cells]

LoopError(results) ==
    LET k == FirstError(results)
    IN  IF k = 0 THEN "none" ELSE results[k].error

\* The file after: open, header lines, the data rows up to the first error.
Export(old, header, results) ==
    LET f == OpenForWrite(old)
    IN  [f EXCEPT !.lines = @ \o header \o WrittenRows(results)]

FireCsvHeader ==
    << <<Str("model"), Str("threads"), Str("time_s"), Str("speedup"), Str("efficiency"),
         Str("files_per_sec")>> >>

FireCsvRow(r) ==
    [cells |-> <<Str(r.model), FormatFixed(Float(r.threads, 1), 0, ""),
                 FormatFixed(r.time_s, 3, ""), FormatFixed(r.speedup, 2, ""),
                 FormatFixed(r.efficiency, 4, ""), FormatFixed(r.files_per_sec, 1, "")>>,
     error |-> "none"]

PopCsvHeader ==
    << <<Str("operation"), Str("row_serial_us"), Str("row_parallel_us"),
         Str("column_serial_us"), Str("column_parallel_us"), Str("column_advantage_serial"),
         Str("column_advantage_parallel")>> >>

\* The four raw timing cells shared by the CSV and Markdown rows.
RawCells(row) ==
    <<row["operation"], FormatFixed(row["row_serial_us"], 3, ""),
      FormatFixed(row["row_parallel_us"], 3, ""), FormatFixed(row["column_serial_us"], 3, ""),
      FormatFixed(row["column_parallel_us"], 3, "")>>

RawKeys == {"operation", "row_serial_us", "row_parallel_us", "column_serial_us",
            "column_parallel_us"}

PopCsvRow(row) ==
    IF ~(RawKeys \subseteq DOMAIN row) THEN [cells |-> <<>>, error |-> "KeyError"]
    ELSE IF ~CanFormat(row["column_advantage_serial"])
    THEN [cells |-> <<>>, error |-> "TypeError"]
    ELSE [cells |-> RawCells(row) \o
                    <<FormatFixed(row["column_advantage_serial"], 2, "x"),
                      IF row["column_advantage_parallel"] # None
                      THEN FormatFixed(row["column_advantage_parallel"], 2, "x")
                      ELSE Str("-")>>,
          error |-> "none"]

FireMdHeader ==
    << <<Str("Model"), Str("Threads"), Str("Time (s)"), Str("Speedup"), Str("Efficiency"),
         Str("Files/sec")>>,
       <<Str("-------"), Str("---------"), Str("----------"), Str("---------"),
         Str("------------"), Str("-----------")>> >>

FireMdRow(r) ==
    [cells |-> <<Str(r.model), FormatFixed(Float(r.threads, 1), 0, ""),
                 FormatFixed(r.time_s, 3, ""), FormatFixed(r.speedup, 2, "x"),
                 FormatFixed(Mul(r.efficiency, Float(100, 1)), 1, "%"),
                 FormatFixed(r.files_per_sec, 1, "")>>,
     error |-> "none"]

PopMdHeader ==
    << <<Str("Operation"), Str("Row Serial (us)"), Str("Row Parallel (us)"),
         Str("Column Serial (us)"), Str("Column Parallel (us)"), Str("Col Adv Serial"),
         Str("Col Adv Parallel")>>,
       <<Str("-----------"), Str("----------------:"), Str("------------------:"),
         Str("------------------:"), Str("--------------------:"), Str("---------------:"),
         Str("-----------------:")>> >>

PopMdRow(row) ==
    IF ~(RawKeys \subseteq DOMAIN row) THEN [cells |-> <<>>, error |-> "KeyError"]
    ELSE IF ~CanFormat(row["column_advantage_serial"])
            \/ ~CanFormat(row["column_advantage_parallel"])
    THEN [cells |-> <<>>, error |-> "TypeError"]
    ELSE [cells |-> RawCells(row) \o
                    <<FormatFixed(row["column_advantage_serial"], 2, "x"),
                      FormatFixed(row["column_advantage_parallel"], 2, "x")>>,
          error |-> "none"]

JsonBundle(fire, population) ==
    [fire |-> fire, population |-> population,
     metadata |-> [fire_dataset |-> [files |-> 516, measurements |-> 1167525, sites |-> 1398],
                   population_dataset |-> [countries |-> 266, years |-> 65],
                   generated_with |-> "generate_bench_assets.py"]]

-----------------------------------------------------------------------------
(* Charts *)

OfModel(fire, m) == SelectSeq(fire, LAMBDA r : r.model = m)

Threads(records) == [i \in 1..Len(records) |-> records[i].threads]

Speedups(records) == [i \in 1..Len(records) |-> records[i].speedup]

EfficiencyPercents(records) ==
    [i \in 1..Len(records) |-> Mul(records[i].efficiency, Float(100, 1))]

\* ax.plot(x, y, label=...): one series; x and y must have the same length.
Series(label, x, y) == [label |-> label, x |-> x, y |-> y]

PlotError(x, y) == IF Len(x) = Len(y) THEN "none" ELSE "ValueError"

\* Both lines of a fire chart are drawn against the Row records' thread counts;
\* row_y and col_y are the plotted measure of the Row and the Column records.
FireChart(title, fire, row_y, col_y) ==
    LET row_threads == Threads(OfModel(fire, "Row"))
    IN  [chart |-> [title |-> title,
                    series |-> <<Series("Row", row_threads, row_y),
                                 Series("Column", row_threads, col_y)>>],
         error |-> IF PlotError(row_threads, row_y) # "none"
                   THEN PlotError(row_threads, row_y)
                   ELSE PlotError(row_threads, col_y)]

\* r['operation'].startswith('Range'), over the labels the tables use.
StartsWithRange(operation) == operation.s \in {"Range (11y)"}

\* next(r for r in rows if ...): index of the first row that matches, or 0
\* (StopIteration); matches[i] tells whether the i-th row matches.
FirstMatch(matches) ==
    IF \E i \in DOMAIN matches : matches[i]
    THEN CHOOSE i \in DOMAIN matches : matches[i] /\ \A j \in 1..(i - 1) : ~matches[j]
    ELSE 0

PopulationChart(rows) ==
    LET p == FirstMatch([i \in 1..Len(rows) |-> rows[i]["operation"] = Str("Point Query")])
        g == FirstMatch([i \in 1..Len(rows) |-> StartsWithRange(rows[i]["operation"])])
    IN  IF p = 0 \/ g = 0 THEN [chart |-> <<>>, error |-> "StopIteration"]
        ELSE LET values == <<rows[p]["column_serial_us"], rows[p]["column_parallel_us"],
                             rows[g]["column_serial_us"], rows[g]["column_parallel_us"]>>
             IN  [chart |-> [title |-> "Population Analytical Latency (Column Model)",
                             labels |-> <<"Point Serial", "Point Parallel", "Range Serial",
                                          "Range Parallel">>,
                             values |-> values,
                             text_y |-> [i \in 1..4 |-> Mul(values[i], Float(102, 100))],
                             text |-> [i \in 1..4 |-> FormatFixed(values[i], 3, "")]],
                  error |-> "none"]

\* fig.savefig(path): the file holds the figure.
SaveFig(chart) == [exists |-> TRUE, lines |-> <<chart>>]

-----------------------------------------------------------------------------
(* The script *)

VARIABLES
    pc,               \* the statement the process is at, or how it ended
    error,            \* the uncaught exception and the step that raised it
    deps_installed,   \* whether pandas and matplotlib can be imported
    source_rows,      \* the POPULATION_ROWS literal the module is loaded with
    FIRE_DATA,
    POPULATION_ROWS,
    dir_exists,       \* whether ARTIFACT_DIR exists
    files,            \* the files of ARTIFACT_DIR
    written,          \* the files this process has opened for writing
    stdout,
    run,              \* 1 for the first run of the script, 2 for the re-run
    first_run_files,  \* the files as the first run left them
    derive_calls      \* calls of _add_derived_population_metrics in this process

vars == <<pc, error, deps_installed, source_rows, FIRE_DATA, POPULATION_ROWS, dir_exists,
          files, written, stdout, run, first_run_files, derive_calls>>

NoError == [type |-> "none", at |-> "none"]

Ended == pc \in {"done", "crashed", "aborted"}

Init ==
    /\ pc = "import"
    /\ error = NoError
    /\ deps_installed \in BOOLEAN
    /\ \/ source_rows = PopulationRowsLiteral
       \/ \E n \in 0..MaxRows : \E t \in [1..n -> Timings] : source_rows = GeneratedTable(t)
    /\ FIRE_DATA = FireDataLiteral
    /\ POPULATION_ROWS = source_rows
    /\ dir_exists = FALSE
    /\ files = [f \in FileNames |-> NoFile]
    /\ written = {}
    /\ stdout = <<>>
    /\ run = 1
    /\ first_run_files = files
    /\ derive_calls = 0

\* The statement at `at` completes, or raises `type` and the process dies.
Finish(at, type, next) ==
    IF type = "none"
    THEN pc' = next /\ error' = error
    ELSE pc' = "crashed" /\ error' = [type |-> type, at |-> at]

\* The import guard placed after the directory's creation.
ImportDeps_AfterMakedirs ==
    /\ pc = "import"
    /\ dir_exists' = TRUE
    /\ IF deps_installed
       THEN pc' = "makedirs" /\ stdout' = stdout
       ELSE /\ pc' = "aborted"
            /\ stdout' = Append(stdout, "Please install dependencies: pip install pandas matplotlib")
    /\ UNCHANGED <<error, deps_installed, source_rows, FIRE_DATA, POPULATION_ROWS,
                   files, written, run, first_run_files, derive_calls>>

\* try: import pandas, matplotlib; except ImportError: raise SystemExit(...)
ImportDeps ==
    /\ pc = "import"
    /\ IF deps_installed
       THEN pc' = "makedirs" /\ stdout' = stdout
       ELSE /\ pc' = "aborted"
            /\ stdout' = Append(stdout, "Please install dependencies: pip install pandas matplotlib")
    /\ UNCHANGED <<error, deps_installed, source_rows, FIRE_DATA, POPULATION_ROWS, dir_exists,
                   files, written, run, first_run_files, derive_calls>>

\* os.makedirs(ARTIFACT_DIR, exist_ok=True)
MakeDirs ==
    /\ pc = "makedirs"
    /\ dir_exists' = TRUE
    /\ pc' = "derive"
    /\ UNCHANGED <<error, deps_installed, source_rows, FIRE_DATA, POPULATION_ROWS,
                   files, written, stdout, run, first_run_files, derive_calls>>

\* _add_derived_population_metrics(POPULATION_ROWS)
Derive ==
    /\ pc = "derive"
    /\ LET res == AddDerivedPopulationMetrics(POPULATION_ROWS)
       IN  /\ POPULATION_ROWS' = res.rows
           /\ Finish("derive", res.error, "fire_csv")
    /\ derive_calls' = derive_calls + 1
    /\ UNCHANGED <<deps_installed, source_rows, FIRE_DATA, dir_exists,
                   files, written, stdout, run, first_run_files>>

\* A with-open block that writes header lines and one line per record.
ExportStep(at, name, header, results, next) ==
    /\ pc = at
    /\ files' = [files EXCEPT ![name] = Export(@, header, results)]
    /\ written' = written \cup {name}
    /\ Finish(at, LoopError(results), next)
    /\ UNCHANGED <<deps_installed, source_rows, FIRE_DATA, POPULATION_ROWS, dir_exists,
                   stdout, run, first_run_files, derive_calls>>

ExportFireCsv ==
    ExportStep("fire_csv", "fire_results.csv", FireCsvHeader,
               [i \in 1..Len(FIRE_DATA) |-> FireCsvRow(FIRE_DATA[i])], "pop_csv")

ExportPopCsv ==
    ExportStep("pop_csv", "population_results.csv", PopCsvHeader,
               [i \in 1..Len(POPULATION_ROWS) |-> PopCsvRow(POPULATION_ROWS[i])], "fire_md")

ExportFireMd ==
    ExportStep("fire_md", "fire_results.md", FireMdHeader,
               [i \in 1..Len(FIRE_DATA) |-> FireMdRow(FIRE_DATA[i])], "pop_md")

ExportPopMd ==
    ExportStep("pop_md", "population_results.md", PopMdHeader,
               [i \in 1..Len(POPULATION_ROWS) |-> PopMdRow(POPULATION_ROWS[i])], "json")

\* json.dump({...}, jf, indent=2)
ExportJson ==
    /\ pc = "json"
    /\ files' = [files EXCEPT !["benchmarks.json"] =
                    [OpenForWrite(@) EXCEPT !.lines = @ \o <<JsonBundle(FIRE_DATA, POPULATION_ROWS)>>]]
    /\ written' = written \cup {"benchmarks.json"}
    /\ pc' = "speedup_chart"
    /\ UNCHANGED <<error, deps_installed, source_rows, FIRE_DATA, POPULATION_ROWS, dir_exists,
                   stdout, run, first_run_files, derive_calls>>

\* A figure is built and, unless building it raised, saved as PNG and SVG.
ChartStep(at, png, svg, res, next) ==
    /\ pc = at
    /\ IF res.error = "none"
       THEN /\ files' = [files EXCEPT ![png] = SaveFig(res.chart), ![svg] = SaveFig(res.chart)]
            /\ written' = written \cup {png, svg}
       ELSE UNCHANGED <<files, written>>
    /\ Finish(at, res.error, next)
    /\ UNCHANGED <<deps_installed, source_rows, FIRE_DATA, POPULATION_ROWS, dir_exists,
                   stdout, run, first_run_files, derive_calls>>

SpeedupChart ==
    ChartStep("speedup_chart", "fire_speedup.png", "fire_speedup.svg",
              FireChart("Fire Data Speedup", FIRE_DATA, Speedups(OfModel(FIRE_DATA, "Row")),
                        Speedups(OfModel(FIRE_DATA, "Column"))),
              "efficiency_chart")

EfficiencyChart ==
    ChartStep("efficiency_chart", "fire_efficiency.png", "fire_efficiency.svg",
              FireChart("Fire Data Parallel Efficiency", FIRE_DATA,
                        EfficiencyPercents(OfModel(FIRE_DATA, "Row")),
                        EfficiencyPercents(OfModel(FIRE_DATA, "Column"))),
              "population_chart")

PointRangeChart ==
    ChartStep("population_chart", "population_point_range.png", "population_point_range.svg",
              PopulationChart(POPULATION_ROWS), "print")

\* print("Artifacts written to", ARTIFACT_DIR)
PrintDone ==
    /\ pc = "print"
    /\ stdout' = Append(stdout, "Artifacts written to ARTIFACT_DIR")
    /\ pc' = "done"
    /\ UNCHANGED <<error, deps_installed, source_rows, FIRE_DATA, POPULATION_ROWS, dir_exists,
                   files, written, run, first_run_files, derive_calls>>

\* The script is started again on the same source and the same directory:
\* a new process loads the module afresh and finds the files the first left.
Rerun ==
    /\ Ended
    /\ run = 1
    /\ run' = 2
    /\ first_run_files' = files
    /\ pc' = "import"
    /\ error' = NoError
    /\ FIRE_DATA' = FireDataLiteral
    /\ POPULATION_ROWS' = source_rows
    /\ written' = {}
    /\ stdout' = <<>>
    /\ derive_calls' = 0
    /\ UNCHANGED <<deps_installed, source_rows, dir_exists, files>>

Next ==
    \/ ImportDeps
    \/ MakeDirs
    \/ Derive
    \/ ExportFireCsv
    \/ ExportPopCsv
    \/ ExportFireMd
    \/ ExportPopMd
    \/ ExportJson
    \/ SpeedupChart
    \/ EfficiencyChart
    \/ PointRangeChart
    \/ PrintDone
    \/ Rerun

Spec == Init /\ [][Next]_vars

-----------------------------------------------------------------------------
(* Properties *)

\* _add_derived_population_metrics has run in this process (returned or raised).
DeriveRan == derive_calls = 1

\* The float v equals n / d, with d nonzero: n / d as a fraction of integers is
\* the fraction v (kept in lowest terms) with both terms scaled by one factor.
IsRatio(v, n, d) ==
    /\ v.kind = "float"
    /\ LET top == n.num * d.den
           bottom == n.den * d.num
       IN  IF v.num = 0 THEN top = 0
           ELSE /\ top % v.num = 0
                /\ bottom % v.den = 0
                /\ top \div v.num = bottom \div v.den

\* The cell shows the float v at two decimals: a number within 0.005 of v.
ShowsAtTwoDecimals(cell, v) ==
    /\ cell.kind = "fixed"
    /\ cell.decimals = 2
    /\ LET diff == cell.scaled * v.den - 100 * v.num
       IN  2 * (IF diff < 0 THEN -diff ELSE diff) <= v.den

\* C1: after _add_derived_population_metrics has run, every row with a nonzero
\* column_serial_us has column_advantage_serial = row_serial_us / column_serial_us,
\* every row with a zero column_serial_us has it None, and no error was raised.
C1_SerialAdvantageOnEveryRow ==
    DeriveRan =>
        /\ error.at # "derive"
        /\ \A i \in 1..Len(POPULATION_ROWS) :
              LET r == POPULATION_ROWS[i]
              IN  /\ Has(r, "column_advantage_serial")
                  /\ IF r["column_serial_us"].num # 0
                     THEN IsRatio(r["column_advantage_serial"], r["row_serial_us"],
                                  r["column_serial_us"])
                     ELSE r["column_advantage_serial"] = None

\* C2: after the function has run, every row whose column_parallel_us is zero or
\* absent has column_advantage_parallel = None, and the function did not raise.
C2_ZeroOrAbsentDenominatorGivesNone ==
    DeriveRan =>
        \A i \in 1..Len(POPULATION_ROWS) :
            LET r == POPULATION_ROWS[i]
            IN  (~Has(r, "column_parallel_us") \/ r["column_parallel_us"].num = 0) =>
                    /\ error.at # "derive"
                    /\ Has(r, "column_advantage_parallel")
                    /\ r["column_advantage_parallel"] = None

\* C3: after the function has run, column_advantage_parallel of every row is the
\* ratio row_parallel_us / column_parallel_us exactly when both parallel fields
\* are present and column_parallel_us is nonzero (so it is the number 0 when
\* row_parallel_us is 0), and None otherwise.
C3_ParallelAdvantageIsRatioOrNone ==
    DeriveRan =>
        \A i \in 1..Len(POPULATION_ROWS) :
            LET r == POPULATION_ROWS[i]
            IN  /\ Has(r, "column_advantage_parallel")
                /\ IF /\ Has(r, "row_parallel_us")
                      /\ Has(r, "column_parallel_us")
                      /\ r["column_parallel_us"].num # 0
                   THEN IsRatio(r["column_advantage_parallel"], r["row_parallel_us"],
                                r["column_parallel_us"])
                   ELSE r["column_advantage_parallel"] = None

\* The data lines of an exported table: those after the header lines.
DataLines(name, header) == SubSeq(files[name].lines, Len(header) + 1, Len(files[name].lines))

\* C4: once the population CSV export has run, no formatting of an absent ratio
\* made it fail, and in every data line each of the two ratio cells is "-" where
\* the row's field is None and the field's number at two decimals otherwise.
C4_CsvRendersAbsentRatiosAsDash ==
    "population_results.csv" \in written =>
        /\ ~(error.at = "pop_csv" /\ error.type = "TypeError")
        /\ LET data == DataLines("population_results.csv", PopCsvHeader)
           IN  \A i \in 1..Len(data) :
                  \A c \in {6, 7} :
                     LET v == POPULATION_ROWS[i][IF c = 6 THEN "column_advantage_serial"
                                                 ELSE "column_advantage_parallel"]
                     IN  IF v = None THEN data[i][c] = Str("-")
                         ELSE ShowsAtTwoDecimals(data[i][c], v)

\* C5: no run ends in an error raised by an absent (None) ratio field.
C5_AbsentRatioNeverEndsTheRun ==
    pc = "crashed" => error.type # "TypeError"

\* C6: a run that ends in the missing-dependency abort has created neither the
\* output directory nor any output file.
C6_AbortBeforeAnyOutput ==
    pc = "aborted" =>
        /\ ~dir_exists
        /\ written = {}
        /\ \A f \in FileNames : ~files[f].exists

C6_Witness ==
    /\ pc = "aborted"
    /\ ~deps_installed
    /\ Len(stdout) = 1

\* The data lines of the file are one per record of the table, in the table's
\* order: line i starts with the label of record i.
OneLinePerRecord(name, header, labels) ==
    LET data == DataLines(name, header)
    IN  /\ Len(data) = Len(labels)
        /\ \A i \in 1..Len(labels) : data[i][1] = labels[i]

FireLabels == [i \in 1..Len(FIRE_DATA) |-> Str(FIRE_DATA[i].model)]

PopulationLabels == [i \in 1..Len(POPULATION_ROWS) |-> POPULATION_ROWS[i]["operation"]]

\* C7: each CSV and Markdown export, once it has run, holds exactly one data row
\* per record of its table, in source order.
C7_OneDataRowPerRecord ==
    /\ "fire_results.csv" \in written =>
          OneLinePerRecord("fire_results.csv", FireCsvHeader, FireLabels)
    /\ "fire_results.md" \in written =>
          OneLinePerRecord("fire_results.md", FireMdHeader, FireLabels)
    /\ "population_results.csv" \in written =>
          OneLinePerRecord("population_results.csv", PopCsvHeader, PopulationLabels)
    /\ "population_results.md" \in written =>
          OneLinePerRecord("population_results.md", PopMdHeader, PopulationLabels)

\* C8: every CSV, Markdown and JSON file the re-run writes has the content the
\* first run gave it, whatever the first run left in the directory; when the
\* re-run has ended, the directory's text files are as the first run left them.
C8_RerunReproducesTextFiles ==
    run = 2 =>
        /\ \A f \in TextFiles \cap written : files[f] = first_run_files[f]
        /\ Ended => \A f \in TextFiles : files[f] = first_run_files[f]

C8_Witness ==
    /\ run = 2
    /\ pc = "done"
    /\ TextFiles \subseteq written
    /\ Len(files["population_results.csv"].lines) > Len(PopCsvHeader)

DerivedKeys == {"column_advantage_serial", "column_advantage_parallel"}

\* The raw fields of every population row are those of the source literal.
RawFieldsUntouched ==
    /\ Len(POPULATION_ROWS) = Len(source_rows)
    /\ \A i \in 1..Len(source_rows) :
          /\ DOMAIN POPULATION_ROWS[i] \ DerivedKeys = DOMAIN source_rows[i]
          /\ \A k \in DOMAIN source_rows[i] : POPULATION_ROWS[i][k] = source_rows[i][k]

\* Every exporter that has run found the derived fields computed, once.
ExportersSeeAugmentedRows ==
    written # {} =>
        /\ DeriveRan
        /\ \A i \in 1..Len(POPULATION_ROWS) : DerivedKeys \subseteq DOMAIN POPULATION_ROWS[i]
        /\ "benchmarks.json" \in written =>
              files["benchmarks.json"].lines[1].population = POPULATION_ROWS

\* Within one process, only the derived-metrics call changes a table.
OnlyDeriveChangesTables ==
    (pc # "derive" /\ run' = run) =>
        (POPULATION_ROWS' = POPULATION_ROWS /\ FIRE_DATA' = FIRE_DATA)

\* C9: the derived fields are computed once, before any exporter runs, so every
\* exporter reads the augmented rows; computing them leaves the raw fields and
\* the fire table as they were, and no later step changes either table.
C9_DerivedOnceThenTablesFrozen ==
    /\ [](derive_calls <= 1 /\ RawFieldsUntouched /\ FIRE_DATA = FireDataLiteral
          /\ ExportersSeeAugmentedRows)
    /\ [][OnlyDeriveChangesTables]_vars

C9_Witness ==
    /\ pc = "done"
    /\ DeriveRan
    /\ TextFiles \cup ChartFiles \subseteq written
    /\ \E i \in 1..Len(POPULATION_ROWS) :
          POPULATION_ROWS[i]["column_advantage_serial"] # None

\* C10: in the speedup and efficiency charts the Column line has one point per
\* Column record, the i-th drawn at the i-th Column record's own thread count.
C10_ColumnSeriesAtOwnThreadCounts ==
    \A f \in {"fire_speedup.png", "fire_speedup.svg", "fire_efficiency.png",
              "fire_efficiency.svg"} :
        files[f].exists =>
            LET col == files[f].lines[1].series[2]
                columns == SelectSeq(FIRE_DATA, LAMBDA r : r.model = "Column")
            IN  /\ col.label = "Column"
                /\ Len(col.x) = Len(columns)
                /\ Len(col.y) = Len(columns)
                /\ \A i \in 1..Len(columns) : col.x[i] = columns[i].threads

C10_Witness ==
    /\ files["fire_speedup.png"].exists
    /\ files["fire_efficiency.svg"].exists
    /\ Len(files["fire_efficiency.svg"].lines[1].series[2].x) = 5

====
